---- MODULE Spec2Model ----
(***************************************************************************)
(* Model of elliptic/curves/serde.rs: the serde adapters of the secret key *)
(* (a hex string) and of the public key (a record {x, y} of hex strings).  *)
(* A hex string is a sequence of one-character strings.  The big-integer   *)
(* conversions and the key constructors live outside serde.rs; they are    *)
(* modelled on a small curve, y^2 = x^3 + 7 over the field of FieldPrime   *)
(* elements.                                                               *)
(***************************************************************************)
EXTENDS Integers, Sequences, FiniteSets, TLC

VARIABLES
    pc,            \* "idle", "visit_map" (inside the while loop), "done"
    call,          \* the adapter function the current call entered
    chain,         \* "fresh", "roundtrip" (input is the last output), "reencode"
    text,          \* the value handed to serde_secret_key::deserialize
    stream,        \* the map entries handed to serde_public_key::deserialize
    idx,           \* number of entries of stream that next_key was asked for
    x, y,          \* the locals of visit_map
    to_key_calls,  \* the points handed to PK::to_key by the current call
    result,        \* the outcome of the current call
    src,           \* the key that was serialized at the head of the chain
    wire           \* the text or record that serialization produced

vars == <<pc, call, chain, text, stream, idx, x, y, to_key_calls, result, src, wire>>

---------------------------------------------------------------------------
(* Bounds of the explored inputs *)

MaxLen == 3        \* longest text handed to the secret-key decoder
MaxFields == 3     \* longest map handed to the public-key decoder

(* Characters the input texts are drawn from: digits of both cases, a     *)
(* leading-zero digit, and a character that is no hex digit.              *)
SkAlphabet == {"0", "1", "e", "A", "g"}
FieldTexts == {<<"9">>, <<"a">>, <<"F">>, <<"g">>}
FieldNames == {"x", "y", "z"}

---------------------------------------------------------------------------
(* The external core: BigInt <-> hex *)

HEX_RADIX == 16

LowerDigits == <<"0", "1", "2", "3", "4", "5", "6", "7", "8", "9",
                 "a", "b", "c", "d", "e", "f">>
UpperDigits == <<"0", "1", "2", "3", "4", "5", "6", "7", "8", "9",
                 "A", "B", "C", "D", "E", "F">>

IsHexDigit(c) == \E i \in 1..16 : LowerDigits[i] = c \/ UpperDigits[i] = c

DigitValue(c) == (CHOOSE i \in 1..16 : LowerDigits[i] = c \/ UpperDigits[i] = c) - 1

RECURSIVE to_hex(_)
to_hex(n) ==
    IF n < HEX_RADIX THEN <<LowerDigits[n + 1]>>
    ELSE to_hex(n \div HEX_RADIX) \o <<LowerDigits[(n % HEX_RADIX) + 1]>>

RECURSIVE HexValue(_)
HexValue(s) ==
    IF s = <<>> THEN 0
    ELSE HexValue(SubSeq(s, 1, Len(s) - 1)) * HEX_RADIX + DigitValue(s[Len(s)])

(* from_hex returns a BigInt, not a Result: text that is no hex number    *)
(* cannot be reported to the caller, the conversion panics.               *)
from_hex(s) ==
    IF s # <<>> /\ \A i \in 1..Len(s) : IsHexDigit(s[i])
    THEN [ok |-> TRUE, val |-> HexValue(s)]
    ELSE [ok |-> FALSE, val |-> 0]

---------------------------------------------------------------------------
(* The external core: keys *)

FieldPrime == 23
CurveOrder == 24

ValidScalar(n) == 0 < n /\ n < CurveOrder

OnCurve(p) ==
    /\ p.x \in 0..(FieldPrime - 1)
    /\ p.y \in 0..(FieldPrime - 1)
    /\ (p.y * p.y) % FieldPrime = (p.x * p.x * p.x + 7) % FieldPrime

Point(px, py) == [x |-> px, y |-> py]

ValidPoints == {p \in [x : 0..(FieldPrime - 1), y : 0..(FieldPrime - 1)] : OnCurve(p)}

(* SK::from_big_int and PK::to_key return the key itself, not a Result:   *)
(* a rejected scalar or point panics inside the constructor.              *)
SK_from_big_int(n) ==
    IF ValidScalar(n) THEN [ok |-> TRUE, key |-> [scalar |-> n]]
    ELSE [ok |-> FALSE, key |-> [scalar |-> 0]]

SK_to_big_int(sk) == sk.scalar

PK_to_key(p) ==
    IF OnCurve(p) THEN [ok |-> TRUE, key |-> [point |-> p]]
    ELSE [ok |-> FALSE, key |-> [point |-> Point(0, 0)]]

PK_to_point(pk) == pk.point

SecretKeys == {[scalar |-> n] : n \in 1..(CurveOrder - 1)}
PublicKeys == {[point |-> p] : p \in ValidPoints}

---------------------------------------------------------------------------
(* Outcomes of a call *)

NoResult == [kind |-> "None", val |-> "none"]
Ok(v) == [kind |-> "Ok", val |-> v]
Err(e) == [kind |-> "Err", val |-> e]
Panic(m) == [kind |-> "Panic", val |-> m]

IsOk(r, v) == r.kind = "Ok" /\ r.val = v

---------------------------------------------------------------------------
(* serde_secret_key *)

(* Faulty variant: the scalar written in radix 10. *)
RECURSIVE to_dec(_)
to_dec(n) ==
    IF n < 10 THEN <<LowerDigits[n + 1]>>
    ELSE to_dec(n \div 10) \o <<LowerDigits[(n % 10) + 1]>>

serde_secret_key_serialize_decimal(sk) == Ok(to_dec(SK_to_big_int(sk)))

(* Faulty variant: the scalar written byte by byte, two digits per byte. *)
serde_secret_key_serialize_padded(sk) ==
    LET h == to_hex(SK_to_big_int(sk)) IN
    Ok(IF Len(h) % 2 = 1 THEN <<"0">> \o h ELSE h)

(* serialize: serializer.serialize_str(&sk.to_big_int().to_hex()) *)
serde_secret_key_serialize(sk) == Ok(to_hex(SK_to_big_int(sk)))

(* visit_str: every return is Ok(v); a failure of from_hex or of          *)
(* from_big_int unwinds through it.                                       *)
visit_str(s) ==
    LET h == from_hex(s) IN
    IF ~h.ok THEN Panic("from_hex")
    ELSE LET k == SK_from_big_int(h.val) IN
         IF ~k.ok THEN Panic("from_big_int") ELSE Ok(k.key)

(* deserialize: deserializer.deserialize_str(SecretKeyVisitor); a value   *)
(* that is no string is the deserializer's own invalid-type error.        *)
serde_secret_key_deserialize(input) ==
    IF input.str THEN visit_str(input.val) ELSE Err("InvalidType")

---------------------------------------------------------------------------
(* serde_public_key *)

Field(k, v) == [key |-> k, val |-> v]

(* Faulty variant: the coordinates written under each other's name. *)
serde_public_key_serialize_swapped(pk) ==
    LET point == PK_to_point(pk) IN
    Ok(<<Field("x", to_hex(point.y)), Field("y", to_hex(point.x))>>)

(* serialize: a struct of 2 fields, "x" then "y" *)
serde_public_key_serialize(pk) ==
    LET point == PK_to_point(pk) IN
    Ok(<<Field("x", to_hex(point.x)), Field("y", to_hex(point.y))>>)

(* let mut x = BigInt::from(0); let mut y = BigInt::from(0); *)
visit_map_init == [x |-> 0, y |-> 0]

(* Faulty variant: the "y" arm assigns x. *)
visit_map_step_y_into_x(e, cx, cy) ==
    IF e.fault # "none" THEN [x |-> cx, y |-> cy, out |-> Err("StreamError")]
    ELSE IF e.key \in {"x", "y"} THEN
        LET h == from_hex(e.val) IN
        IF h.ok THEN [x |-> h.val, y |-> cy, out |-> NoResult]
        ELSE [x |-> cx, y |-> cy, out |-> Panic("from_hex")]
    ELSE [x |-> cx, y |-> cy, out |-> Panic("Serialization failed!")]

(* Faulty variant: a field of another name is skipped. *)
visit_map_step_skip_unknown(e, cx, cy) ==
    IF e.fault # "none" THEN [x |-> cx, y |-> cy, out |-> Err("StreamError")]
    ELSE IF e.key \in {"x", "y"} THEN
        LET h == from_hex(e.val) IN
        IF h.ok THEN [x |-> IF e.key = "x" THEN h.val ELSE cx,
                      y |-> IF e.key = "y" THEN h.val ELSE cy, out |-> NoResult]
        ELSE [x |-> cx, y |-> cy, out |-> Panic("from_hex")]
    ELSE [x |-> cx, y |-> cy, out |-> NoResult]

(* Faulty variant: a coordinate already set is not overwritten. *)
visit_map_step_first_wins(e, cx, cy) ==
    IF e.fault # "none" THEN [x |-> cx, y |-> cy, out |-> Err("StreamError")]
    ELSE IF e.key \in {"x", "y"} THEN
        LET h == from_hex(e.val) IN
        IF h.ok THEN [x |-> IF e.key = "x" /\ cx = 0 THEN h.val ELSE cx,
                      y |-> IF e.key = "y" /\ cy = 0 THEN h.val ELSE cy, out |-> NoResult]
        ELSE [x |-> cx, y |-> cy, out |-> Panic("from_hex")]
    ELSE [x |-> cx, y |-> cy, out |-> Panic("Serialization failed!")]

(* Faulty variant: the name is matched before the value is fetched. *)
visit_map_step_name_first(e, cx, cy) ==
    IF e.fault = "key" THEN [x |-> cx, y |-> cy, out |-> Err("StreamError")]
    ELSE IF e.key \notin {"x", "y"} THEN
        [x |-> cx, y |-> cy, out |-> Panic("Serialization failed!")]
    ELSE IF e.fault = "value" THEN [x |-> cx, y |-> cy, out |-> Err("StreamError")]
    ELSE LET h == from_hex(e.val) IN
        IF h.ok THEN [x |-> IF e.key = "x" THEN h.val ELSE cx,
                      y |-> IF e.key = "y" THEN h.val ELSE cy, out |-> NoResult]
        ELSE [x |-> cx, y |-> cy, out |-> Panic("from_hex")]

(* One iteration of the while loop on the entry e, with the locals cx, cy. *)
(* out is NoResult when the loop goes on.                                  *)
visit_map_step(e, cx, cy) ==
    IF e.fault = "key" THEN [x |-> cx, y |-> cy, out |-> Err("StreamError")]
    ELSE IF e.fault = "value" THEN [x |-> cx, y |-> cy, out |-> Err("StreamError")]
    ELSE IF e.key = "x" THEN
        LET h == from_hex(e.val) IN
        IF h.ok THEN [x |-> h.val, y |-> cy, out |-> NoResult]
        ELSE [x |-> cx, y |-> cy, out |-> Panic("from_hex")]
    ELSE IF e.key = "y" THEN
        LET h == from_hex(e.val) IN
        IF h.ok THEN [x |-> cx, y |-> h.val, out |-> NoResult]
        ELSE [x |-> cx, y |-> cy, out |-> Panic("from_hex")]
    ELSE [x |-> cx, y |-> cy, out |-> Panic("Serialization failed!")]

(* Faulty variant: a coordinate left at zero is reported as a missing field. *)
visit_map_end_missing_field(cx, cy) ==
    IF cx = 0 \/ cy = 0 THEN Err("MissingField")
    ELSE LET k == PK_to_key(Point(cx, cy)) IN
         IF k.ok THEN Ok(k.key) ELSE Panic("to_key")

(* Ok(PK::to_key(&Point { x, y })) *)
visit_map_end(cx, cy) ==
    LET k == PK_to_key(Point(cx, cy)) IN
    IF k.ok THEN Ok(k.key) ELSE Panic("to_key")

---------------------------------------------------------------------------
(* Inputs *)

Texts(alphabet, n) == UNION {[1..k -> alphabet] : k \in 0..n}

SkInputs ==
    {[str |-> TRUE, val |-> t] : t \in Texts(SkAlphabet, MaxLen)}
        \cup {[str |-> FALSE, val |-> <<>>]}

Entry(k, v, f) == [key |-> k, val |-> v, fault |-> f]

Entries ==
    {Entry(k, v, "none") : k \in FieldNames, v \in FieldTexts}
        \cup {Entry(k, <<>>, "value") : k \in FieldNames}
        \cup {Entry("", <<>>, "key")}

Streams == UNION {[1..k -> Entries] : k \in 0..MaxFields}

(* The record a serializer wrote, as the map a deserializer reads back. *)
AsStream(rec) == [i \in 1..Len(rec) |-> Entry(rec[i].key, rec[i].val, "none")]

NoKey == [none |-> TRUE]
NoText == [str |-> FALSE, val |-> <<>>]

---------------------------------------------------------------------------
(* The calls *)

Init ==
    /\ pc = "idle"
    /\ call = "none"
    /\ chain = "fresh"
    /\ text = NoText
    /\ stream = <<>>
    /\ idx = 0
    /\ x = 0
    /\ y = 0
    /\ to_key_calls = <<>>
    /\ result = NoResult
    /\ src = NoKey
    /\ wire = <<>>

SerializeSK ==
    /\ pc = "idle"
    /\ \E sk \in SecretKeys :
        /\ pc' = "done"
        /\ call' = "sk_serialize"
        /\ result' = serde_secret_key_serialize(sk)
        /\ src' = sk
        /\ UNCHANGED <<chain, text, stream, idx, x, y, to_key_calls, wire>>

DeserializeSK ==
    /\ pc = "idle"
    /\ \E input \in SkInputs :
        /\ pc' = "done"
        /\ call' = "sk_deserialize"
        /\ text' = input
        /\ result' = serde_secret_key_deserialize(input)
        /\ UNCHANGED <<chain, stream, idx, x, y, to_key_calls, src, wire>>

(* The string just written is read back. *)
RoundTripSK ==
    /\ pc = "done" /\ call = "sk_serialize" /\ result.kind = "Ok"
    /\ pc' = "done"
    /\ call' = "sk_deserialize"
    /\ chain' = "roundtrip"
    /\ wire' = result.val
    /\ text' = [str |-> TRUE, val |-> result.val]
    /\ result' = serde_secret_key_deserialize([str |-> TRUE, val |-> result.val])
    /\ UNCHANGED <<stream, idx, x, y, to_key_calls, src>>

SerializePK ==
    /\ pc = "idle"
    /\ \E pk \in PublicKeys :
        /\ pc' = "done"
        /\ call' = "pk_serialize"
        /\ result' = serde_public_key_serialize(pk)
        /\ src' = pk
        /\ UNCHANGED <<chain, text, stream, idx, x, y, to_key_calls, wire>>

(* deserializer.deserialize_map(PublicKeyVisitor): visit_map starts *)
DeserializePK ==
    /\ pc = "idle"
    /\ \E s \in Streams :
        /\ pc' = "visit_map"
        /\ call' = "pk_deserialize"
        /\ stream' = s
        /\ idx' = 0
        /\ x' = visit_map_init.x
        /\ y' = visit_map_init.y
        /\ UNCHANGED <<chain, text, to_key_calls, result, src, wire>>

(* The record just written is read back. *)
RoundTripPK ==
    /\ pc = "done" /\ call = "pk_serialize" /\ chain = "fresh" /\ result.kind = "Ok"
    /\ pc' = "visit_map"
    /\ call' = "pk_deserialize"
    /\ chain' = "roundtrip"
    /\ wire' = result.val
    /\ stream' = AsStream(result.val)
    /\ idx' = 0
    /\ x' = visit_map_init.x
    /\ y' = visit_map_init.y
    /\ result' = NoResult
    /\ UNCHANGED <<text, to_key_calls, src>>

(* while let Some(key) = map.next_key()? { ... } on the next entry *)
VisitMapNext ==
    /\ pc = "visit_map" /\ idx < Len(stream)
    /\ LET r == visit_map_step(stream[idx + 1], x, y) IN
        /\ idx' = idx + 1
        /\ x' = r.x
        /\ y' = r.y
        /\ result' = r.out
        /\ pc' = IF r.out = NoResult THEN "visit_map" ELSE "done"
    /\ UNCHANGED <<call, chain, text, stream, to_key_calls, src, wire>>

(* next_key returned None: the loop is left and the key is built *)
VisitMapEnd ==
    /\ pc = "visit_map" /\ idx = Len(stream)
    /\ to_key_calls' = Append(to_key_calls, Point(x, y))
    /\ result' = visit_map_end(x, y)
    /\ pc' = "done"
    /\ UNCHANGED <<call, chain, text, stream, idx, x, y, src, wire>>

(* The key just read back is written again. *)
ReencodePK ==
    /\ pc = "done" /\ call = "pk_deserialize" /\ chain = "roundtrip"
    /\ result.kind = "Ok"
    /\ pc' = "done"
    /\ call' = "pk_serialize"
    /\ chain' = "reencode"
    /\ result' = serde_public_key_serialize(result.val)
    /\ UNCHANGED <<text, stream, idx, x, y, to_key_calls, src, wire>>

(* The call is over; the adapters keep nothing between calls. *)
Return ==
    /\ pc = "done"
    /\ pc' = "idle"
    /\ call' = "none"
    /\ chain' = "fresh"
    /\ text' = NoText
    /\ stream' = <<>>
    /\ idx' = 0
    /\ x' = 0
    /\ y' = 0
    /\ to_key_calls' = <<>>
    /\ result' = NoResult
    /\ src' = NoKey
    /\ wire' = <<>>

Next ==
    \/ SerializeSK
    \/ DeserializeSK
    \/ RoundTripSK
    \/ SerializePK
    \/ DeserializePK
    \/ RoundTripPK
    \/ VisitMapNext
    \/ VisitMapEnd
    \/ ReencodePK
    \/ Return

Spec == Init /\ [][Next]_vars

---------------------------------------------------------------------------
(* Helpers of the properties *)

DecodedSK == pc = "done" /\ call = "sk_deserialize"
DecodedPK == pc = "done" /\ call = "pk_deserialize"
EncodedSK == pc = "done" /\ call = "sk_serialize"
EncodedPK == pc = "done" /\ call = "pk_serialize"

HasNonHex(s) == \E i \in 1..Len(s) : ~IsHexDigit(s[i])

LowerDigitSet == {LowerDigits[i] : i \in 1..16}

(* s is the canonical hex text of n *)
Canonical(s, n) ==
    /\ Len(s) >= 1
    /\ \A i \in 1..Len(s) : s[i] \in LowerDigitSet
    /\ (s[1] = "0" => Len(s) = 1)
    /\ (n = 0 <=> s = <<"0">>)

(* positions of the entries of s named k *)
Occurrences(s, k) == {i \in 1..Len(s) : s[i].key = k}

LastOccurrence(s, k) == CHOOSE i \in Occurrences(s, k) : \A j \in Occurrences(s, k) : j <= i

(* every entry is an "x" or "y" field with a hex number as its value *)
WellFormed(s) ==
    \A i \in 1..Len(s) :
        /\ s[i].fault = "none"
        /\ s[i].key \in {"x", "y"}
        /\ from_hex(s[i].val).ok

(* visit_map as one function of the whole map *)
RECURSIVE visit_map_run(_, _, _, _)
visit_map_run(s, i, cx, cy) ==
    IF i > Len(s) THEN visit_map_end(cx, cy)
    ELSE LET r == visit_map_step(s[i], cx, cy) IN
         IF r.out = NoResult THEN visit_map_run(s, i + 1, r.x, r.y) ELSE r.out

(* rearrangements of s that keep the last "x" and the last "y" entry last *)
SameLast(s, t, k) ==
    /\ (Occurrences(s, k) = {}) = (Occurrences(t, k) = {})
    /\ Occurrences(s, k) # {} => s[LastOccurrence(s, k)] = t[LastOccurrence(t, k)]

Rearrangements(s) ==
    {t \in {[i \in 1..Len(s) |-> s[f[i]]] : f \in Permutations(1..Len(s))} :
        SameLast(s, t, "x") /\ SameLast(s, t, "y")}

---------------------------------------------------------------------------
(* C1: the string written for a secret key, read back, is that secret key. *)
SecretKeyRoundTrip ==
    (DecodedSK /\ chain = "roundtrip") =>
        /\ wire = to_hex(src.scalar)
        /\ text = [str |-> TRUE, val |-> wire]
        /\ IsOk(result, src)

SecretKeyRoundTripWitness ==
    /\ DecodedSK /\ chain = "roundtrip"
    /\ src = [scalar |-> 23]
    /\ wire = <<"1", "7">>
    /\ IsOk(result, [scalar |-> 23])

(* C2: the record written for a public key, read back, is that public key, *)
(* and writing the key read back gives the same record again.              *)
PublicKeyRoundTrip ==
    /\ (DecodedPK /\ chain = "roundtrip") =>
            /\ stream = AsStream(wire)
            /\ IsOk(result, src)
    /\ (EncodedPK /\ chain = "reencode") => IsOk(result, wire)

PublicKeyRoundTripWitness ==
    /\ EncodedPK /\ chain = "reencode"
    /\ src = [point |-> Point(15, 22)]
    /\ wire = <<Field("x", <<"f">>), Field("y", <<"1", "6">>)>>
    /\ IsOk(result, wire)

(* C3: the record written for a public key has exactly the two fields "x"  *)
(* and "y", in this order, holding the hex text of the point's x and y.    *)
PublicKeyRecordShape ==
    EncodedPK =>
        /\ result.kind = "Ok"
        /\ Len(result.val) = 2
        /\ result.val[1].key = "x"
        /\ result.val[1].val = to_hex(PK_to_point(src).x)
        /\ result.val[2].key = "y"
        /\ result.val[2].val = to_hex(PK_to_point(src).y)

PublicKeyRecordShapeWitness ==
    /\ EncodedPK /\ chain = "fresh"
    /\ src = [point |-> Point(19, 14)]
    /\ result.val = <<Field("x", <<"1", "3">>), Field("y", <<"e">>)>>

(* C4: every hex text written (the secret key's string, the public key's   *)
(* x and y) has only the digits 0-9a-f, no leading zero, and is "0"        *)
(* exactly when the number is zero.                                        *)
CanonicalHex ==
    /\ EncodedSK => (result.kind = "Ok" /\ Canonical(result.val, SK_to_big_int(src)))
    /\ EncodedPK =>
            /\ result.kind = "Ok"
            /\ Canonical(result.val[1].val, PK_to_point(src).x)
            /\ Canonical(result.val[2].val, PK_to_point(src).y)

CanonicalHexWitness ==
    /\ EncodedPK
    /\ src = [point |-> Point(9, 0)]
    /\ result.val[1].val = <<"9">>
    /\ result.val[2].val = <<"0">>

(* C5: a decode whose text (the secret key's string, or the value of an    *)
(* "x" or "y" field) has a character that is no hex digit returns the      *)
(* error HexParseError to its caller.                                      *)
HexParseErrorReturned ==
    /\ (DecodedSK /\ text.str /\ HasNonHex(text.val)) =>
            result = Err("HexParseError")
    /\ (DecodedPK /\ idx > 0 /\ stream[idx].fault = "none"
            /\ stream[idx].key \in {"x", "y"} /\ HasNonHex(stream[idx].val)) =>
            result = Err("HexParseError")

(* C6: a decode whose parsed scalar or assembled point the key constructor *)
(* rejects returns the error KeyConstructionError to its caller.           *)
KeyConstructionErrorReturned ==
    /\ (DecodedSK /\ text.str /\ from_hex(text.val).ok
            /\ ~SK_from_big_int(from_hex(text.val).val).ok) =>
            result = Err("KeyConstructionError")
    /\ (DecodedPK /\ Len(to_key_calls) > 0 /\ ~PK_to_key(to_key_calls[1]).ok) =>
            result = Err("KeyConstructionError")

(* C7: once the public-key decoder has read a field that is named neither  *)
(* "x" nor "y" and has a string value, the call is over with the panic     *)
(* "Serialization failed!": no key, no error value, no key construction.   *)
UnknownFieldAborts ==
    (call = "pk_deserialize" /\ idx > 0 /\ stream[idx].fault = "none"
        /\ stream[idx].key \notin {"x", "y"}) =>
        /\ pc = "done"
        /\ result = Panic("Serialization failed!")
        /\ to_key_calls = <<>>

UnknownFieldAbortsWitness ==
    /\ DecodedPK
    /\ stream = <<Entry("x", <<"a">>, "none"), Entry("y", <<"F">>, "none"),
                  Entry("z", <<"9">>, "none")>>
    /\ idx = 3
    /\ x = 10 /\ y = 15
    /\ result.kind = "Panic"

(* C8: when the map ends without an "x" (a "y") field, the point handed to *)
(* the key constructor has x = 0 (y = 0); the decoder raises no error of   *)
(* its own, the outcome is the constructor's.                              *)
MissingCoordinateDefaultsToZero ==
    /\ (DecodedPK /\ WellFormed(stream)) => Len(to_key_calls) = 1
    /\ (DecodedPK /\ Len(to_key_calls) > 0) =>
            /\ (Occurrences(stream, "x") = {} => to_key_calls[1].x = 0)
            /\ (Occurrences(stream, "y") = {} => to_key_calls[1].y = 0)
            /\ result = IF OnCurve(to_key_calls[1])
                        THEN Ok([point |-> to_key_calls[1]])
                        ELSE Panic("to_key")

MissingCoordinateDefaultsToZeroWitness ==
    /\ DecodedPK
    /\ stream = <<Entry("x", <<"9">>, "none")>>
    /\ to_key_calls = <<Point(9, 0)>>
    /\ result.kind = "Ok"

(* C9: for a map of "x" and "y" fields with hex values, the point built    *)
(* has the value of the last "x" field as x and of the last "y" field as   *)
(* y, and every rearrangement of the map that keeps the same last "x" and  *)
(* last "y" field gives the same outcome.                                  *)
LastOccurrenceWins ==
    (DecodedPK /\ WellFormed(stream)) =>
        /\ Len(to_key_calls) = 1
        /\ \A k \in {"x", "y"} :
              Occurrences(stream, k) # {} =>
                  (IF k = "x" THEN to_key_calls[1].x ELSE to_key_calls[1].y)
                      = HexValue(stream[LastOccurrence(stream, k)].val)
        /\ \A t \in Rearrangements(stream) : visit_map_run(t, 1, 0, 0) = result

LastOccurrenceWinsWitness ==
    /\ DecodedPK
    /\ stream = <<Entry("x", <<"9">>, "none"), Entry("y", <<"F">>, "none"),
                  Entry("x", <<"a">>, "none")>>
    /\ to_key_calls = <<Point(10, 15)>>
    /\ result.kind = "Ok"

(* C10: once the stream has failed to yield a field's name or its value as *)
(* a string, the call is over with that stream error, whatever the field's *)
(* name: no panic, no later field read, no key construction.               *)
ValueReadBeforeName ==
    (call = "pk_deserialize" /\ idx > 0 /\ stream[idx].fault # "none") =>
        /\ pc = "done"
        /\ result = Err("StreamError")
        /\ to_key_calls = <<>>

ValueReadBeforeNameWitness ==
    /\ DecodedPK
    /\ stream = <<Entry("z", <<>>, "value"), Entry("x", <<"a">>, "none")>>
    /\ idx = 1
    /\ result = Err("StreamError")

====
